---- MODULE Spec2Model ----
(***************************************************************************)
(* Model of main.py: go() selects pipeline stages from config.main.steps   *)
(* and runs each selected stage through mlflow.run, one after the other.   *)
(*                                                                         *)
(* Strings are sequences of atoms.  An atom is an indivisible piece of     *)
(* text: a stage name, the separator ",", a blank, an arbitrary other      *)
(* character "x", the word "all", or a configuration value.  No stage name *)
(* is a concatenation of other atoms, so two strings are equal in Python   *)
(* exactly when their atom sequences are equal.                            *)
(***************************************************************************)
EXTENDS Integers, Sequences, FiniteSets, TLC

\* Longest main.steps string, in atoms, taken from the full atom alphabet.
MaxLen == 3

None == "None"

\* ------------------------------------------------------------------------
\* The six stage names, in the order of the if statements of go().
IfOrder_swapped ==
  << "download", "basic_cleaning", "data_split", "data_check",
     "train_random_forest", "test_regression_model" >>

IfOrder_duplicated ==
  << "download", "basic_cleaning", "data_check", "data_split",
     "train_random_forest", "test_regression_model", "download" >>

IfOrder ==
  << "download", "basic_cleaning", "data_check", "data_split",
     "train_random_forest", "test_regression_model" >>

StageNames == { IfOrder[i] : i \in 1..Len(IfOrder) }

\* _steps, the list used when main.steps is "all".
_steps_without_train ==
  << "download", "basic_cleaning", "data_check", "data_split" >>

_steps_with_test ==
  << "download", "basic_cleaning", "data_check", "data_split",
     "train_random_forest", "test_regression_model" >>

_steps ==
  << "download", "basic_cleaning", "data_check", "data_split",
     "train_random_forest" >>

\* ------------------------------------------------------------------------
\* Python string operations on atom sequences.

\* x in xs, for a list xs.
In(x, xs) == \E i \in 1..Len(xs) : xs[i] = x

RECURSIVE SplitFrom(_, _, _)
\* The elements of s from position i on, cur being the element under way.
SplitFrom(s, i, cur) ==
  IF i > Len(s) THEN << cur >>
  ELSE IF s[i] = "," THEN << cur >> \o SplitFrom(s, i + 1, << >>)
  ELSE SplitFrom(s, i + 1, Append(cur, s[i]))

RECURSIVE Strip(_)
Strip(e) ==
  IF e = << >> THEN e
  ELSE IF Head(e) = " " THEN Strip(Tail(e))
  ELSE IF e[Len(e)] = " " THEN Strip(SubSeq(e, 1, Len(e) - 1))
  ELSE e

Split_stripped(s) ==
  LET r == SplitFrom(s, 1, << >>) IN [ i \in 1..Len(r) |-> Strip(r[i]) ]

\* s.split(","): never empty, "" gives [""].
Split(s) == SplitFrom(s, 1, << >>)

\* The string whose only atom is a.
Str(a) == << a >>

\* steps_par.split(",") if steps_par != "all" else _steps, as a list of
\* strings.
ActiveSteps(s) ==
  IF s # Str("all") THEN Split(s)
  ELSE [ i \in 1..Len(_steps) |-> Str(_steps[i]) ]

\* ------------------------------------------------------------------------
\* The inputs: main.steps strings and configurations.

Atoms == StageNames \cup { ",", " ", "x", "all" }

RECURSIVE SeqsUpTo(_, _)
SeqsUpTo(S, n) ==
  IF n = 0 THEN { << >> }
  ELSE LET shorter == SeqsUpTo(S, n - 1)
       IN shorter \cup { Append(t, a) : t \in { u \in shorter : Len(u) = n - 1 }, a \in S }

RECURSIVE Orderings(_)
\* Every ordering of the elements of S.
Orderings(S) ==
  IF S = { } THEN { << >> }
  ELSE UNION { { << a >> \o t : t \in Orderings(S \ { a }) } : a \in S }

RECURSIVE Join(_)
\* ",".join(names)
Join(names) ==
  IF names = << >> THEN << >>
  ELSE IF Len(names) = 1 THEN << names[1] >>
  ELSE << names[1], "," >> \o Join(Tail(names))

\* main.steps values: every string of at most MaxLen atoms, and the six
\* stage names in every order, separated by commas.
StepsStrings ==
  SeqsUpTo(Atoms, MaxLen) \cup { Join(p) : p \in Orderings(StageNames) }

Configs ==
  [ main :
      [ steps : StepsStrings,
        project_name : { "nyc_airbnb", "proj_b" },
        experiment_name : { "development" },
        components_repository : { "https://github.com/udacity/components" },
        latest_tag : { "latest" },
        reference_tag : { "reference" },
        prod_tag : { "prod" } ],
    etl : [ sample : { "sample1.csv" }, min_price : { 10 }, max_price : { 350 } ],
    basic_cleaning :
      [ input_artifact : { "sample.csv" },
        output_artifact : { "clean_sample.csv", "cleaned.csv" } ],
    data_check : [ kl_threshold : { "0.2" } ],
    modeling :
      [ test_size : { "0.2" }, val_size : { "0.2" }, random_seed : { 42 },
        stratify_by : { "neighbourhood_group" },
        max_tfidf_features : { 5 },
        trainval_artifact : { "trainval_data.csv" },
        test_artifact : { "test_data.csv" },
        output_artifact : { "random_forest_export", "rf_model" },
        random_forest : { "rf_settings" } ] ]

\* The working directory hydra starts go() in, and the one the program was
\* launched from (hydra.utils.get_original_cwd()).
Cwd == "hydra_run_dir"
OriginalCwd == "original_cwd"

\* ------------------------------------------------------------------------
\* What each stage's mlflow.run call is given.

\* os.path.join(hydra.utils.get_original_cwd(), "src", name)
LocalPath(name) == << OriginalCwd, "/", "src", "/", name >>

\* The project URI of a stage's mlflow.run call.
Uri(stage, config) ==
  CASE stage = "download" ->
         << config.main.components_repository, "/", "get_data" >>
    [] stage = "basic_cleaning" -> LocalPath("basic_cleaning")
    [] stage = "data_check" -> LocalPath("data_check")
    [] stage = "data_split" ->
         << config.main.components_repository, "/", "train_val_test_split" >>
    [] stage = "train_random_forest" -> LocalPath("train_random_forest")
    [] stage = "test_regression_model" ->
         << config.main.components_repository, "/", "test_regression_model" >>

\* The version argument of a stage's mlflow.run call; None when the call
\* passes none.
Version(stage) == IF stage = "download" THEN "main" ELSE None

DownloadParams(config) ==
  [ sample |-> config.etl.sample,
    artifact_name |-> Str("sample.csv"),
    artifact_type |-> Str("raw_data"),
    artifact_description |-> Str("Raw file as downloaded") ]

BasicCleaningParams(config) ==
  [ input_artifact |->
      << config.main.project_name, "/", config.basic_cleaning.input_artifact,
         ":", config.main.latest_tag >>,
    output_artifact |-> config.basic_cleaning.output_artifact,
    output_type |-> Str("clean_sample"),
    output_description |->
      Str("Data with outliers removed and date converted"),
    min_price |-> config.etl.min_price,
    max_price |-> config.etl.max_price ]

DataCheckParams_raw_input(config) ==
  [ csv |->
      << config.main.project_name, "/", config.basic_cleaning.input_artifact,
         ":", config.main.latest_tag >>,
    ref |->
      << config.main.project_name, "/", config.basic_cleaning.output_artifact,
         ":", config.main.reference_tag >>,
    kl_threshold |-> config.data_check.kl_threshold,
    min_price |-> config.etl.min_price,
    max_price |-> config.etl.max_price ]

DataCheckParams(config) ==
  [ csv |->
      << config.main.project_name, "/", config.basic_cleaning.output_artifact,
         ":", config.main.latest_tag >>,
    ref |->
      << config.main.project_name, "/", config.basic_cleaning.output_artifact,
         ":", config.main.reference_tag >>,
    kl_threshold |-> config.data_check.kl_threshold,
    min_price |-> config.etl.min_price,
    max_price |-> config.etl.max_price ]

DataSplitParams(config) ==
  [ input |->
      << config.main.project_name, "/", config.basic_cleaning.output_artifact,
         ":", config.main.latest_tag >>,
    test_size |-> config.modeling.test_size,
    random_seed |-> config.modeling.random_seed,
    stratify_by |-> config.modeling.stratify_by ]

TrainParams(config, rf_config_path) ==
  [ trainval_artifact |->
      << config.main.project_name, "/", config.modeling.trainval_artifact,
         ":", config.main.latest_tag >>,
    val_size |-> config.modeling.val_size,
    random_seed |-> config.modeling.random_seed,
    stratify_by |-> config.modeling.stratify_by,
    rf_config |-> rf_config_path,
    max_tfidf_features |-> config.modeling.max_tfidf_features,
    output_artifact |-> config.modeling.output_artifact ]

TestParams(config) ==
  [ mlflow_model |->
      << config.main.project_name, "/", config.modeling.output_artifact,
         ":", config.main.prod_tag >>,
    test_dataset |->
      << config.main.project_name, "/", config.modeling.test_artifact,
         ":", config.main.latest_tag >> ]

\* The parameters argument of a stage's mlflow.run call.
Parameters(stage, config, rf_config_path) ==
  CASE stage = "download" -> DownloadParams(config)
    [] stage = "basic_cleaning" -> BasicCleaningParams(config)
    [] stage = "data_check" -> DataCheckParams(config)
    [] stage = "data_split" -> DataSplitParams(config)
    [] stage = "train_random_forest" -> TrainParams(config, rf_config_path)
    [] stage = "test_regression_model" -> TestParams(config)

\* os.path.abspath("rf_config.json")
RfConfigPath == << Cwd, "/", "rf_config.json" >>

\* The stage whose block serializes the random forest configuration before
\* its run.
NeedsRfConfig_never(stage) == FALSE

NeedsRfConfig(stage) == stage = "train_random_forest"

\* ------------------------------------------------------------------------
\* Control flow of go() around one mlflow.run call.

\* mlflow.run is synchronous: go() stays in the call of the stage at if
\* statement i until the run is over.
AfterStart_nowait(i) == [ pc |-> "if", idx |-> i + 1 ]

AfterStart(i) == [ pc |-> "running", idx |-> i ]

\* No statement of go() catches an exception of mlflow.run: it leaves the
\* with block and go().
AfterFailure_swallowed(i) == [ pc |-> "if", idx |-> i + 1 ]

AfterFailure(i) == [ pc |-> "failed", idx |-> i ]

\* ------------------------------------------------------------------------
\* The state of one execution of go().

VARIABLES
  config,        \* the configuration hydra passes to go()
  environ,       \* os.environ entries set by go()
  active_steps,  \* the list of strings active_steps
  tmp_dir,       \* the temporary directory of the with block
  rf_config,     \* the local variable rf_config, << >> while unbound
  files,         \* files written by go(): records path, content
  calls,         \* the mlflow.run calls made so far, oldest first
  pc,            \* where go() is
  idx            \* the if statement go() is at, counted in IfOrder

vars == << config, environ, active_steps, tmp_dir, rf_config, files, calls, pc, idx >>

Init ==
  /\ config \in Configs
  /\ environ = [ WANDB_PROJECT |-> None, WANDB_RUN_GROUP |-> None ]
  /\ active_steps = << >>
  /\ tmp_dir = None
  /\ rf_config = << >>
  /\ files = { }
  /\ calls = << >>
  /\ pc = "start"
  /\ idx = 1

\* The stage of the if statement go() is at.
Stage == IfOrder[idx]

\* Lines 28-36: the environment, active_steps and the temporary directory.
Begin ==
  /\ pc = "start"
  /\ environ' = [ WANDB_PROJECT |-> config.main.project_name,
                  WANDB_RUN_GROUP |-> config.main.experiment_name ]
  /\ active_steps' = ActiveSteps(config.main.steps)
  /\ tmp_dir' = "created"
  /\ pc' = "if"
  /\ UNCHANGED << config, rf_config, files, calls, idx >>

\* An if statement whose stage name is not in active_steps.
SkipStage ==
  /\ pc = "if"
  /\ idx <= Len(IfOrder)
  /\ ~ In(Str(Stage), active_steps)
  /\ idx' = idx + 1
  /\ UNCHANGED << config, environ, active_steps, tmp_dir, rf_config, files, calls, pc >>

\* Lines 95-97: rf_config.json is written before the run of the stage.
WriteRfConfig ==
  /\ pc = "if"
  /\ idx <= Len(IfOrder)
  /\ In(Str(Stage), active_steps)
  /\ NeedsRfConfig(Stage)
  /\ rf_config' = RfConfigPath
  /\ files' = files \cup
       { [ path |-> RfConfigPath, content |-> config.modeling.random_forest ] }
  /\ pc' = "call"
  /\ UNCHANGED << config, environ, active_steps, tmp_dir, calls, idx >>

\* mlflow.run is called for the stage.
StartRun ==
  /\ \/ pc = "call"
     \/ /\ pc = "if"
        /\ idx <= Len(IfOrder)
        /\ In(Str(Stage), active_steps)
        /\ ~ NeedsRfConfig(Stage)
  /\ calls' = Append(calls,
       [ stage |-> Stage,
         uri |-> Uri(Stage, config),
         entry_point |-> "main",
         version |-> Version(Stage),
         parameters |-> Parameters(Stage, config, rf_config),
         status |-> "running" ])
  /\ pc' = AfterStart(idx).pc
  /\ idx' = AfterStart(idx).idx
  /\ UNCHANGED << config, environ, active_steps, tmp_dir, rf_config, files >>

\* The run go() waits for ends well; mlflow.run returns.
RunReturns ==
  /\ pc = "running"
  /\ calls' = [ calls EXCEPT ![Len(calls)].status = "finished" ]
  /\ pc' = "if"
  /\ idx' = idx + 1
  /\ UNCHANGED << config, environ, active_steps, tmp_dir, rf_config, files >>

\* The run go() waits for fails; mlflow.run raises.  The with block removes
\* the temporary directory on the way out.
RunFails ==
  /\ pc = "running"
  /\ calls' = [ calls EXCEPT ![Len(calls)].status = "failed" ]
  /\ pc' = AfterFailure(idx).pc
  /\ idx' = AfterFailure(idx).idx
  /\ tmp_dir' = IF AfterFailure(idx).pc = "failed" THEN "removed" ELSE tmp_dir
  /\ UNCHANGED << config, environ, active_steps, rf_config, files >>

\* The end of the with block: go() returns.
Finish ==
  /\ pc = "if"
  /\ idx > Len(IfOrder)
  /\ tmp_dir' = "removed"
  /\ pc' = "done"
  /\ UNCHANGED << config, environ, active_steps, rf_config, files, calls, idx >>

Next ==
  \/ Begin
  \/ SkipStage
  \/ WriteRfConfig
  \/ StartRun
  \/ RunReturns
  \/ RunFails
  \/ Finish

Spec == Init /\ [][Next]_vars

\* Executions under one configuration of the artifact names, in which every
\* external run ends and go() goes on whenever it can.
FairInit ==
  /\ Init
  /\ config.main.project_name = "nyc_airbnb"
  /\ config.basic_cleaning.output_artifact = "clean_sample.csv"
  /\ config.modeling.output_artifact = "random_forest_export"

FairSpec == FairInit /\ [][Next]_vars /\ WF_vars(Next)

\* ------------------------------------------------------------------------
\* Vocabulary of the properties.

steps_par == config.main.steps

\* The fixed pipeline order.
PipelineOrder ==
  << "download", "basic_cleaning", "data_check", "data_split",
     "train_random_forest", "test_regression_model" >>

PipelineStages == { PipelineOrder[i] : i \in 1..Len(PipelineOrder) }

Pos(stage) == CHOOSE i \in 1..Len(PipelineOrder) : PipelineOrder[i] = stage

\* name is an element of the comma-separated list s: it stands alone
\* between two separators, or between a separator and an end of s.
IsElement(name, s) ==
  \E i \in 1..Len(s) :
    /\ s[i] = name
    /\ i = 1 \/ s[i - 1] = ","
    /\ i = Len(s) \/ s[i + 1] = ","

\* The calls of a stage, as positions in calls.
CallsOf(stage) == { i \in 1..Len(calls) : calls[i].stage = stage }

Called(stage) == CallsOf(stage) # { }

\* A run of a stage before `stage` in the pipeline order has failed.
EarlierFailed(stage) ==
  \E i \in 1..Len(calls) :
    calls[i].status = "failed" /\ Pos(calls[i].stage) < Pos(stage)

Ended == pc \in { "done", "failed" }

\* project_name + "/" + artifact + ":" + tag
ArtifactRef(artifact, tag) ==
  << config.main.project_name, "/", artifact, ":", tag >>

\* ------------------------------------------------------------------------
\* C1: with main.steps other than "all", a stage is invoked only if its
\* exact name is an element of main.steps split on ","; when go() has
\* ended, every stage so named has been invoked unless the run of an
\* earlier stage failed (and all of them when go() returned); go() fails
\* only through a failed run, never through an element that is no stage
\* name.
C1_SelectedByExactName ==
  steps_par # Str("all") =>
    /\ \A i \in 1..Len(calls) :
         calls[i].stage \in PipelineStages /\ IsElement(calls[i].stage, steps_par)
    /\ Ended =>
         \A s \in PipelineStages :
           IsElement(s, steps_par) => Called(s) \/ EarlierFailed(s)
    /\ pc = "done" =>
         \A s \in PipelineStages : Called(s) <=> IsElement(s, steps_par)
    /\ pc = "failed" => \E i \in 1..Len(calls) : calls[i].status = "failed"

\* go() has returned after one run, with a list that also holds a blank or
\* an unknown element.
C1_Witness ==
  /\ pc = "done"
  /\ steps_par # Str("all")
  /\ Len(calls) = 1
  /\ \E i \in 1..Len(steps_par) : steps_par[i] \in { " ", "x" }

\* C2, as stated: with main.steps = "all", go() invokes all six stages.
C2_AllInvokesSixStages ==
  (pc = "done" /\ steps_par = Str("all")) =>
    \A s \in PipelineStages : Called(s)

\* C2, amended: with main.steps = "all", go() invokes the five stages
\* download, basic_cleaning, data_check, data_split and train_random_forest
\* (each unless the run of an earlier one failed) and never
\* test_regression_model.
C2_AllInvokesFiveStages ==
  steps_par = Str("all") =>
    /\ ~ Called("test_regression_model")
    /\ Ended =>
         \A s \in PipelineStages \ { "test_regression_model" } :
           Called(s) \/ EarlierFailed(s)
    /\ pc = "done" =>
         [ i \in 1..Len(calls) |-> calls[i].stage ] =
           SubSeq(PipelineOrder, 1, 5)

C2_Witness == pc = "done" /\ steps_par = Str("all") /\ Len(calls) = 5

\* C3: test_regression_model is invoked only if main.steps is not "all"
\* and names it as an element of the comma-separated list.
C3_TestOnlyWhenNamed ==
  Called("test_regression_model") =>
    /\ steps_par # Str("all")
    /\ IsElement("test_regression_model", steps_par)

C3_Witness == pc = "done" /\ Called("test_regression_model")

\* C4: the invoked stages are invoked in the fixed pipeline order, whatever
\* the order of main.steps.
C4_PipelineOrder ==
  \A i, j \in 1..Len(calls) :
    i < j => Pos(calls[i].stage) < Pos(calls[j].stage)

\* All six stages ran, from a list that names the last stage first.
C4_Witness ==
  /\ pc = "done"
  /\ Len(calls) = 6
  /\ steps_par[1] = "test_regression_model"

\* C5: at most one run is in progress, and it is the run started last:
\* every run started before it is over; go() is inside mlflow.run exactly
\* while a run is in progress.
C5_NoOverlap ==
  /\ \A i \in 1..Len(calls) : calls[i].status = "running" => i = Len(calls)
  /\ (pc = "running") <=> (\E i \in 1..Len(calls) : calls[i].status = "running")

C5_Witness ==
  /\ Len(calls) >= 2
  /\ calls[Len(calls)].status = "running"
  /\ calls[1].status = "finished"

\* C6: a failed run ends go() in the failed state: the failed run is the
\* last call made, its stage was called once, and go() is over.
C6_FailurePropagates ==
  \A i \in 1..Len(calls) :
    calls[i].status = "failed" =>
      /\ i = Len(calls)
      /\ CallsOf(calls[i].stage) = { i }
      /\ pc = "failed"
      /\ ~ ENABLED Next

\* A run failed while a later stage was still to come.
C6_Witness ==
  /\ pc = "failed"
  /\ \E s \in PipelineStages :
       /\ In(Str(s), active_steps)
       /\ ~ Called(s)
       /\ Pos(s) > Pos(calls[Len(calls)].stage)

\* C7: go() writes no file but rf_config.json; it is written exactly when
\* train_random_forest is active and no earlier run failed, before the run
\* of train_random_forest starts, and that run's rf_config parameter is
\* the path of the file.
C7_RfConfigFile ==
  /\ \A f \in files : f.path = << Cwd, "/", "rf_config.json" >>
  /\ Cardinality(files) <= 1
  /\ files # { } =>
       /\ In(Str("train_random_forest"), active_steps)
       /\ ~ EarlierFailed("train_random_forest")
  /\ (Ended /\ In(Str("train_random_forest"), active_steps)
        /\ ~ EarlierFailed("train_random_forest")) => files # { }
  /\ \A i \in CallsOf("train_random_forest") :
       \E f \in files : calls[i].parameters.rf_config = f.path
  /\ \A i \in 1..Len(calls) :
       calls[i].stage # "train_random_forest" =>
         "rf_config" \notin DOMAIN calls[i].parameters

C7_Witness ==
  /\ files # { }
  /\ Called("train_random_forest")
  /\ Called("data_split")

\* C8: the artifact references chain the stages: data_check csv and
\* data_split input are the output_artifact given to basic_cleaning, in the
\* project at latest_tag; data_check ref is that artifact at
\* reference_tag; test_regression_model mlflow_model is the output_artifact
\* given to train_random_forest, in the project at prod_tag.  The values
\* are those of the configuration whichever stages ran before.
C8_ArtifactChain ==
  /\ \A i \in CallsOf("basic_cleaning") :
       calls[i].parameters.output_artifact = config.basic_cleaning.output_artifact
  /\ \A i \in CallsOf("train_random_forest") :
       calls[i].parameters.output_artifact = config.modeling.output_artifact
  /\ \A i \in CallsOf("data_check") :
       /\ calls[i].parameters.csv =
            ArtifactRef(config.basic_cleaning.output_artifact, config.main.latest_tag)
       /\ calls[i].parameters.ref =
            ArtifactRef(config.basic_cleaning.output_artifact, config.main.reference_tag)
       /\ \A b \in CallsOf("basic_cleaning") :
            calls[i].parameters.csv =
              ArtifactRef(calls[b].parameters.output_artifact, config.main.latest_tag)
  /\ \A i \in CallsOf("data_split") :
       /\ calls[i].parameters.input =
            ArtifactRef(config.basic_cleaning.output_artifact, config.main.latest_tag)
       /\ \A d \in CallsOf("data_check") :
            calls[i].parameters.input = calls[d].parameters.csv
  /\ \A i \in CallsOf("test_regression_model") :
       /\ calls[i].parameters.mlflow_model =
            ArtifactRef(config.modeling.output_artifact, config.main.prod_tag)
       /\ \A t \in CallsOf("train_random_forest") :
            calls[i].parameters.mlflow_model =
              ArtifactRef(calls[t].parameters.output_artifact, config.main.prod_tag)

C8_Witness ==
  /\ Called("basic_cleaning")
  /\ Called("data_check")
  /\ Called("data_split")
  /\ Called("train_random_forest")
  /\ Called("test_regression_model")

\* C9, as stated: every call is identified by a local path under the
\* original working directory's src folder, or by the components repository
\* together with a version: download, data_split and test_regression_model
\* have a version, basic_cleaning, data_check and train_random_forest a
\* path.
C9_PathOrRepositoryVersion ==
  \A i \in 1..Len(calls) :
    IF calls[i].stage \in { "basic_cleaning", "data_check", "train_random_forest" }
    THEN calls[i].uri = << OriginalCwd, "/", "src", "/", calls[i].stage >>
    ELSE /\ calls[i].uri[1] = config.main.components_repository
         /\ calls[i].version # None

\* C10: under FairSpec go() ends, and at no time has it invoked a stage
\* twice, made more than six calls, or more than five when main.steps is
\* "all".
C10_TerminatesWithinSixRuns ==
  /\ <>Ended
  /\ [](/\ \A s \in PipelineStages : Cardinality(CallsOf(s)) <= 1
        /\ Len(calls) <= 6
        /\ steps_par = Str("all") => Len(calls) <= 5)

\* go() returned after six runs.
C10_Witness == pc = "done" /\ Len(calls) = 6 /\ steps_par # Str("all")

====
